---- MODULE Spec2Model ----
(***************************************************************************)
(* A model of parts of the Region Vectorizer (rv):                         *)
(*   - ReductionOptimization::run / ::optimize   (src/transform/redOpt.cpp)*)
(*   - VectorizerInterface::linearize / ::vectorize         (src/rv.cpp)   *)
(*   - createCascadeBlocks                         (src/native/Utils.cpp)  *)
(* The IR is modelled as LLVM keeps it: instructions with operand lists,   *)
(* per-block instruction lists and per-value use lists (a new use is       *)
(* linked at the head of the list).                                        *)
(***************************************************************************)
EXTENDS Integers, Sequences, FiniteSets, TLC

VARIABLES
  pc,      \* position of the single compiler thread
  ir,      \* the function's IR together with the VectorizationInfo over it
  reda,    \* ReductionAnalysis: header phi -> reduction kind, or "none"
  ndebug,  \* TRUE when assert() is compiled out (NDEBUG build)
  opt,     \* frame of ReductionOptimization::optimize
  run,     \* frame of ReductionOptimization::run
  pre,     \* history: the IR at the moment optimize was entered
  log,     \* history: the calls of optimize made by run, in order
  sim,     \* execution of the loop on the IR before and after optimize
  lin,     \* VectorizerInterface::linearize: analyses, stages, events
  vz,      \* VectorizerInterface::vectorize: environment, stages run
  cb,      \* createCascadeBlocks: function, output vectors, loop counter
  lw       \* lowerIntrinsics(Module): module, loop position, history

vars == <<pc, ir, reda, ndebug, opt, run, pre, log, sim, lin, vz, cb, lw>>

\* the state of the redOpt pass and the state of the rest
pipe == <<lin, vz, cb, lw>>
redVars == <<ir, reda, ndebug, opt, run, pre, log, sim>>

-----------------------------------------------------------------------------
(* Bounds of the model *)

\* bit width of the reduction's integer type
Width == 2
\* most out-of-region users of the latch value
MaxExtUsers == 2
\* most loop iterations executed when the loop is run
MaxIter == 2

-----------------------------------------------------------------------------
(* Values: integers of Width bits *)

Modulus == 2 ^ Width
Val == 0 .. (Modulus - 1)

RECURSIVE BitXor(_, _, _)
BitXor(a, b, w) ==
  IF w = 0 THEN 0
  ELSE (((a % 2) + (b % 2)) % 2) + (2 * BitXor(a \div 2, b \div 2, w - 1))

Kinds == {"add", "mul", "min", "max", "xor"}

\* the value computed by an instruction of the reduction's operation
ApplyKind(kind, a, b) ==
  CASE kind = "add" -> (a + b) % Modulus
    [] kind = "mul" -> (a * b) % Modulus
    [] kind = "min" -> IF a < b THEN a ELSE b
    [] kind = "max" -> IF a > b THEN a ELSE b
    [] kind = "xor" -> BitXor(a, b, Width)

\* value references: a constant or the result of an instruction
C(n) == [t |-> "const", n |-> n]
I(id) == [t |-> "inst", n |-> id]
IsInst(v) == v.t = "inst"

\* identity value of the reduction's operation (redTools: GetNeutralElement)
GetNeutralElement(kind) ==
  CASE kind = "add" -> C(0)
    [] kind = "mul" -> C(1)
    [] kind = "min" -> C(Modulus - 1)
    [] kind = "max" -> C(0)
    [] kind = "xor" -> C(0)

-----------------------------------------------------------------------------
(* IR helpers (the LLVM operations that optimize and run call) *)

Max(S) == CHOOSE m \in S : \A x \in S : x <= m

RECURSIVE IndexOf(_, _)
IndexOf(s, x) == IF s = <<>> THEN 0
                 ELSE IF Head(s) = x THEN 1
                 ELSE LET r == IndexOf(Tail(s), x) IN IF r = 0 THEN 0 ELSE r + 1

RECURSIVE Without(_, _)
Without(s, x) == IF s = <<>> THEN <<>>
                 ELSE IF Head(s) = x THEN Tail(s)
                 ELSE <<Head(s)>> \o Without(Tail(s), x)

InsertAt(s, pos, x) == SubSeq(s, 1, pos - 1) \o <<x>> \o SubSeq(s, pos, Len(s))

\* a use: operand number idx of instruction user
Use(user, idx) == [user |-> user, idx |-> idx]

\* Value::getNumUses
NumUses(g, id) == Len(g.uses[id])

\* VectorizationInfo::inRegion
InRegion(g, id) == (~g.hasRegion) \/ (g.insts[id].blk \in g.region)

IsPhi(g, id) == g.insts[id].op = "phi"

\* the operand list of LLVM counts from 0
Operand(g, id, idx) == g.insts[id].ops[idx + 1]

\* unlink the use from the old value's list
RemoveUse(uses, old, u) ==
  IF IsInst(old) THEN [uses EXCEPT ![old.n] = Without(@, u)] ELSE uses

\* link the use at the head of the new value's list
AddUse(uses, new, u) ==
  IF IsInst(new) THEN [uses EXCEPT ![new.n] = <<u>> \o @] ELSE uses

\* User::setOperand
SetOperand(g, user, idx, new) ==
  LET old == Operand(g, user, idx)
      u == Use(user, idx)
  IN [g EXCEPT !.insts[user].ops[idx + 1] = new,
               !.uses = AddUse(RemoveUse(@, old, u), new, u)]

\* the instruction after id in its block, 0 at the end of the block
NextInst(g, id) ==
  LET b == g.blocks[g.insts[id].blk]
      i == IndexOf(b, id)
  IN IF i = Len(b) THEN 0 ELSE b[i + 1]

-----------------------------------------------------------------------------
(* The functions the optimizer is run on: one loop, its header the entry   *)
(* block of the region, with a reduction phi and its update chain.         *)

\* instruction numbers of the loop; a created instruction gets a fresh one
Id == [phi |-> 1, phi2 |-> 2, ld |-> 3, ld2 |-> 4, x |-> 5, y |-> 6, t |-> 7,
       latch |-> 8, st |-> 9, latch2 |-> 10, extQ |-> 11,
       brPre |-> 12, brHdr |-> 13, brBody |-> 14, ret |-> 15]
ExtLatchId(k) == 20 + k
ExtPhiId(k) == 40 + k

Opt(c, s) == IF c THEN s ELSE <<>>

\* the shapes of loop this model runs the optimizer on
Params ==
  [kind : Kinds,                        \* the reduction's operation
   shape : {"s1", "s2", "s3"},          \* form of the update chain
   latchAt : {0, 1},                    \* phi operand that comes from the latch
   initSrc : {"const", "inst"},         \* initial value: constant or instruction
   mal : {"ok", "const", "outside"},    \* latch-side incoming value of the phi
   extPhi : 0 .. 1,                     \* out-of-region users of the phi
   extLatch : 0 .. MaxExtUsers,         \* out-of-region users of the latch
   q : {"none", "noinfo", "single", "multi"},  \* a second header phi
   chainBlk : {"hdr", "body"},          \* block of the update chain
   rev : BOOLEAN,                       \* order of the initial use lists
   phiShape : {"uni", "varying"}]

PreSeq(p) == Opt(p.initSrc = "inst", <<Id.ld>>) \o Opt(p.mal = "outside", <<Id.ld2>>)
             \o <<Id.brPre>>
PhiSeq(p) == CASE p.q = "none" -> <<Id.phi>>
               [] p.q = "noinfo" -> <<Id.phi2, Id.phi>>
               [] OTHER -> <<Id.phi, Id.phi2>>
ChainSeq(p) == <<Id.x>> \o Opt(p.shape # "s1", <<Id.y, Id.t>>) \o <<Id.latch, Id.st>>
               \o Opt(p.q # "none", <<Id.latch2>>)
HdrSeq(p) == PhiSeq(p) \o Opt(p.chainBlk = "hdr", ChainSeq(p)) \o <<Id.brHdr>>
BodySeq(p) == Opt(p.chainBlk = "body", ChainSeq(p) \o <<Id.brBody>>)
ExitSeq(p) == [k \in 1 .. p.extPhi |-> ExtPhiId(k)]
              \o [k \in 1 .. p.extLatch |-> ExtLatchId(k)]
              \o Opt(p.q = "multi", <<Id.extQ>>) \o <<Id.ret>>

Inst(op, ops, blk) == [op |-> op, ops |-> ops, blk |-> blk, inb |-> <<>>]
PhiInst(ops, inb) == [op |-> "phi", ops |-> ops, blk |-> "hdr", inb |-> inb]

InitRef(p) == IF p.initSrc = "const" THEN C(1) ELSE I(Id.ld)
LatchRef(p) == CASE p.mal = "ok" -> I(Id.latch)
                 [] p.mal = "const" -> C(2)
                 [] p.mal = "outside" -> I(Id.ld2)

InstRec(p, id) ==
  LET chain == p.chainBlk IN
  CASE id = Id.phi ->
         IF p.latchAt = 0 THEN PhiInst(<<LatchRef(p), InitRef(p)>>, <<chain, "pre">>)
         ELSE PhiInst(<<InitRef(p), LatchRef(p)>>, <<"pre", chain>>)
    [] id = Id.phi2 -> PhiInst(<<C(0), I(Id.latch2)>>, <<"pre", chain>>)
    [] id \in {Id.ld, Id.ld2} -> Inst("ld", <<>>, "pre")
    [] id = Id.x -> Inst("in", <<>>, chain)
    [] id = Id.y -> Inst(IF p.shape = "s3" THEN "in1" ELSE "in", <<>>, chain)
    [] id = Id.t -> Inst(p.kind, <<I(Id.phi), I(Id.x)>>, chain)
    [] id = Id.latch ->
         (CASE p.shape = "s1" -> Inst(p.kind, <<I(Id.x), I(Id.phi)>>, chain)
            [] p.shape = "s2" -> Inst(p.kind, <<I(Id.t), I(Id.y)>>, chain)
            [] p.shape = "s3" -> Inst("select", <<I(Id.y), I(Id.t), I(Id.phi)>>, chain))
    [] id = Id.st -> Inst("store", <<I(Id.latch)>>, chain)
    [] id = Id.latch2 -> Inst(p.kind, <<I(Id.phi2), I(Id.x)>>, chain)
    [] id = Id.extQ -> Inst("use", <<I(Id.phi2)>>, "exit")
    [] id = Id.brPre -> Inst("br", <<>>, "pre")
    [] id = Id.brHdr -> Inst("br", <<>>, "hdr")
    [] id = Id.brBody -> Inst("br", <<>>, "body")
    [] id = Id.ret -> Inst("ret", <<>>, "exit")
    [] id \in {ExtPhiId(k) : k \in 1 .. p.extPhi} -> Inst("use", <<I(Id.phi)>>, "exit")
    [] id \in {ExtLatchId(k) : k \in 1 .. p.extLatch} -> Inst("use", <<I(Id.latch)>>, "exit")

Range(s) == {s[i] : i \in DOMAIN s}

Reverse(s) == [i \in 1 .. Len(s) |-> s[Len(s) + 1 - i]]

\* the uses of value v by instruction id, in operand order
RECURSIVE OperandUses(_, _, _, _)
OperandUses(ops, id, v, k) ==
  IF k > Len(ops) THEN <<>>
  ELSE Opt(ops[k] = I(v), <<Use(id, k - 1)>>) \o OperandUses(ops, id, v, k + 1)

\* the uses of value v by the instructions of order, in that order
RECURSIVE UsesIn(_, _, _)
UsesIn(insts, order, v) ==
  IF order = <<>> THEN <<>>
  ELSE OperandUses(insts[Head(order)].ops, Head(order), v, 1)
       \o UsesIn(insts, Tail(order), v)

BuildIR(p) ==
  LET order == PreSeq(p) \o HdrSeq(p) \o BodySeq(p) \o ExitSeq(p)
      ids == Range(order)
      insts == [id \in ids |-> InstRec(p, id)]
      region == IF p.chainBlk = "body" THEN {"hdr", "body"} ELSE {"hdr"}
  IN [insts |-> insts,
      blocks |-> [pre |-> PreSeq(p), hdr |-> HdrSeq(p), body |-> BodySeq(p),
                  exit |-> ExitSeq(p)],
      \* a use list holds the latest use first
      uses |-> [v \in ids |-> IF p.rev THEN UsesIn(insts, order, v)
                              ELSE Reverse(UsesIn(insts, order, v))],
      hasRegion |-> TRUE,
      region |-> region,
      entry |-> "hdr",
      shape |-> [id \in {i \in ids : insts[i].blk \in region} |->
                   IF id = Id.phi THEN p.phiShape ELSE "varying"]]

BuildReda(p) ==
  (Id.phi :> p.kind)
  @@ (IF p.q \in {"single", "multi"} THEN Id.phi2 :> p.kind
      ELSE IF p.q = "noinfo" THEN Id.phi2 :> "none" ELSE <<>>)

-----------------------------------------------------------------------------
(* ReductionOptimization::optimize *)

NoOpt == [phi |-> 0, kind |-> "none", phiShape |-> "none", neutral |-> C(0),
          latchIdx |-> 0, latchInst |-> 0, itUse |-> <<>>, latchUpdate |-> 0,
          ret |-> "none"]
NoRun == [it |-> 0, num |-> 0, ret |-> "none"]
NoSim == [n |-> 0, a |-> <<>>, b |-> <<>>]
NoLin == [used |-> FALSE]
NoVz == [used |-> FALSE]
NoCb == [used |-> FALSE]
NoLw == [used |-> FALSE]
PipeIdle == lin = NoLin /\ vz = NoVz /\ cb = NoCb /\ lw = NoLw

\* the frame of a call optimize(phi, red)
Frame(phi, kind) == [NoOpt EXCEPT !.phi = phi, !.kind = kind]

\* VectorizationInfo::getVectorShape
GetVectorShape(g, id) == g.shape[id]

\* VectorizationInfo::setVectorShape
SetVectorShape(g, id, s) == [g EXCEPT !.shape = (id :> s) @@ @]

\* line 29: the operand that holds the latch value
LatchIdx(g, phi) ==
  LET inAtZero == Operand(g, phi, 0)
  IN IF IsInst(inAtZero) /\ InRegion(g, inAtZero.n) THEN 0 ELSE 1

\* line 31: dyn_cast<Instruction>, 0 for the null pointer
LatchInst(g, phi) ==
  LET v == Operand(g, phi, LatchIdx(g, phi)) IN IF IsInst(v) THEN v.n ELSE 0

\* a new instruction at position pos of its block; its operands' uses are linked
RECURSIVE LinkOperands(_, _, _, _)
LinkOperands(uses, id, ops, k) ==
  IF k > Len(ops) THEN uses
  ELSE LinkOperands(AddUse(uses, ops[k], Use(id, k - 1)), id, ops, k + 1)

InsertInst(g, id, rec, pos) ==
  [g EXCEPT !.insts = (id :> rec) @@ @,
            !.blocks[rec.blk] = InsertAt(@, pos, id),
            !.uses = LinkOperands((id :> <<>>) @@ @, id, rec.ops, 1)]

\* redTools: CreateReductInst, one instruction of the reduction's operation
CreateReductInst(g, id, kind, first, second, blk, pos) ==
  InsertInst(g, id, Inst(kind, <<I(first), I(second)>>, blk), pos)

\* faulty variant: the iterator is not advanced (line 56 left out)
InsertPointBeforeLatch(g, latchInst) ==
  IndexOf(g.blocks[g.insts[latchInst].blk], latchInst)

\* lines 55-58: the insert point right after the latch instruction
InsertPoint(g, latchInst) ==
  IndexOf(g.blocks[g.insts[latchInst].blk], latchInst) + 1

\* line 24: only one user, nothing to optimize
OptSingleUse ==
  /\ pc = "opt_entry"
  /\ NumUses(ir, opt.phi) = 1
  /\ opt' = [opt EXCEPT !.phiShape = GetVectorShape(ir, opt.phi), !.ret = "false"]
  /\ pc' = "opt_ret"
  /\ UNCHANGED <<ir, reda, ndebug, run, pre, log, sim, pipe>>

\* line 32: the assertion fails
OptAssertFail ==
  /\ pc = "opt_entry"
  /\ NumUses(ir, opt.phi) # 1
  /\ LatchInst(ir, opt.phi) = 0
  /\ ~ndebug
  /\ opt' = [opt EXCEPT !.phiShape = GetVectorShape(ir, opt.phi),
                        !.neutral = GetNeutralElement(opt.kind),
                        !.latchIdx = LatchIdx(ir, opt.phi)]
  /\ pc' = "aborted"
  /\ UNCHANGED <<ir, reda, ndebug, run, pre, log, sim, pipe>>

\* faulty variant: the early return of line 24 is left out
OptBeginUnchecked ==
  /\ pc = "opt_entry"
  /\ ~(LatchInst(ir, opt.phi) = 0 /\ ~ndebug)
  /\ opt' = [opt EXCEPT !.phiShape = GetVectorShape(ir, opt.phi),
                        !.neutral = GetNeutralElement(opt.kind),
                        !.latchIdx = LatchIdx(ir, opt.phi),
                        !.latchInst = LatchInst(ir, opt.phi),
                        !.itUse = ir.uses[opt.phi]]
  /\ pc' = "opt_uses1"
  /\ UNCHANGED <<ir, reda, ndebug, run, pre, log, sim, pipe>>

\* lines 22-37: up to the start of the loop over the phi's uses
OptBegin ==
  /\ pc = "opt_entry"
  /\ NumUses(ir, opt.phi) # 1
  /\ ~(LatchInst(ir, opt.phi) = 0 /\ ~ndebug)
  /\ opt' = [opt EXCEPT !.phiShape = GetVectorShape(ir, opt.phi),
                        !.neutral = GetNeutralElement(opt.kind),
                        !.latchIdx = LatchIdx(ir, opt.phi),
                        !.latchInst = LatchInst(ir, opt.phi),
                        !.itUse = ir.uses[opt.phi]]
  /\ pc' = "opt_uses1"
  /\ UNCHANGED <<ir, reda, ndebug, run, pre, log, sim, pipe>>

\* faulty variant: the region test of line 44 is left out
OptPreserveUseRemapped ==
  /\ pc = "opt_uses1"
  /\ opt.itUse # <<>>
  /\ ~InRegion(ir, Head(opt.itUse).user)
  /\ ir' = SetOperand(ir, Head(opt.itUse).user, Head(opt.itUse).idx, opt.neutral)
  /\ opt' = [opt EXCEPT !.itUse = Tail(@)]
  /\ UNCHANGED <<pc, reda, ndebug, run, pre, log, sim, pipe>>

\* lines 44-47: a user outside the region keeps the phi
OptPreserveUse ==
  /\ pc = "opt_uses1"
  /\ opt.itUse # <<>>
  /\ ~InRegion(ir, Head(opt.itUse).user)
  /\ opt' = [opt EXCEPT !.itUse = Tail(@)]
  /\ UNCHANGED <<pc, ir, reda, ndebug, run, pre, log, sim, pipe>>

\* lines 38-40, 49-51: a user inside the region gets the neutral element
OptRemapUse ==
  /\ pc = "opt_uses1"
  /\ opt.itUse # <<>>
  /\ InRegion(ir, Head(opt.itUse).user)
  /\ ir' = SetOperand(ir, Head(opt.itUse).user, Head(opt.itUse).idx, opt.neutral)
  /\ opt' = [opt EXCEPT !.itUse = Tail(@)]
  /\ UNCHANGED <<pc, reda, ndebug, run, pre, log, sim, pipe>>

\* line 37: itUse == phi.use_end()
OptUses1End ==
  /\ pc = "opt_uses1"
  /\ opt.itUse = <<>>
  /\ pc' = "opt_fold"
  /\ UNCHANGED <<ir, reda, ndebug, opt, run, pre, log, sim, pipe>>

\* line 55 with the assertion compiled out: a null pointer is dereferenced
OptNullLatch ==
  /\ pc = "opt_fold"
  /\ opt.latchInst = 0
  /\ pc' = "crashed"
  /\ UNCHANGED <<ir, reda, ndebug, opt, run, pre, log, sim, pipe>>

\* lines 55-63: the fold is created after the latch instruction
OptFold ==
  /\ pc = "opt_fold"
  /\ opt.latchInst # 0
  /\ LET new == Max(DOMAIN ir.insts) + 1
         g == CreateReductInst(ir, new, opt.kind, opt.phi, opt.latchInst,
                               ir.insts[opt.latchInst].blk,
                               InsertPoint(ir, opt.latchInst))
     IN /\ ir' = SetVectorShape(g, new, opt.phiShape)
        /\ opt' = [opt EXCEPT !.latchUpdate = new, !.itUse = g.uses[opt.latchInst]]
  /\ pc' = "opt_uses2"
  /\ UNCHANGED <<reda, ndebug, run, pre, log, sim, pipe>>

\* faulty variant: the region test of line 68 is left out
OptKeepLatchUseRedirected ==
  /\ pc = "opt_uses2"
  /\ opt.itUse # <<>>
  /\ InRegion(ir, Head(opt.itUse).user)
  /\ LET g == SetOperand(ir, Head(opt.itUse).user, Head(opt.itUse).idx,
                         I(opt.latchUpdate))
     IN /\ ir' = g
        /\ opt' = [opt EXCEPT !.itUse = g.uses[opt.latchInst]]
  /\ UNCHANGED <<pc, reda, ndebug, run, pre, log, sim, pipe>>

\* lines 64-68: a user inside the region keeps the old latch value
OptKeepLatchUse ==
  /\ pc = "opt_uses2"
  /\ opt.itUse # <<>>
  /\ InRegion(ir, Head(opt.itUse).user)
  /\ opt' = [opt EXCEPT !.itUse = Tail(@)]
  /\ UNCHANGED <<pc, ir, reda, ndebug, run, pre, log, sim, pipe>>

\* lines 64-70: a user outside the region gets the fold; the loop starts over
OptRedirectLatchUse ==
  /\ pc = "opt_uses2"
  /\ opt.itUse # <<>>
  /\ ~InRegion(ir, Head(opt.itUse).user)
  /\ LET g == SetOperand(ir, Head(opt.itUse).user, Head(opt.itUse).idx,
                         I(opt.latchUpdate))
     IN /\ ir' = g
        /\ opt' = [opt EXCEPT !.itUse = g.uses[opt.latchInst]]
  /\ UNCHANGED <<pc, reda, ndebug, run, pre, log, sim, pipe>>

\* line 63: itUse == latchInst->use_end()
OptUses2End ==
  /\ pc = "opt_uses2"
  /\ opt.itUse = <<>>
  /\ pc' = "opt_fin"
  /\ UNCHANGED <<ir, reda, ndebug, opt, run, pre, log, sim, pipe>>

\* faulty variant: the phi keeps the old latch value (line 74 left out)
OptFinKeepsIncoming ==
  /\ pc = "opt_fin"
  /\ opt' = [opt EXCEPT !.ret = "true"]
  /\ pc' = "opt_ret"
  /\ UNCHANGED <<ir, reda, ndebug, run, pre, log, sim, pipe>>

\* lines 74-76: the phi takes the fold from the latch
OptFin ==
  /\ pc = "opt_fin"
  /\ ir' = SetOperand(ir, opt.phi, opt.latchIdx, I(opt.latchUpdate))
  /\ opt' = [opt EXCEPT !.ret = "true"]
  /\ pc' = "opt_ret"
  /\ UNCHANGED <<reda, ndebug, run, pre, log, sim, pipe>>

Optimize ==
  \/ OptSingleUse \/ OptAssertFail \/ OptBegin
  \/ OptPreserveUse \/ OptRemapUse \/ OptUses1End
  \/ OptNullLatch \/ OptFold
  \/ OptKeepLatchUse \/ OptRedirectLatchUse \/ OptUses2End
  \/ OptFin

-----------------------------------------------------------------------------
(* ReductionOptimization::run *)

\* line 81: not applicable without a region
RunNoRegion ==
  /\ pc = "run"
  /\ ~ir.hasRegion
  /\ run' = [run EXCEPT !.ret = "false"]
  /\ pc' = "run_done"
  /\ UNCHANGED <<ir, reda, ndebug, opt, pre, log, sim, pipe>>

\* lines 83-85: the loop starts at the first instruction of the entry block
RunBegin ==
  /\ pc = "run"
  /\ ir.hasRegion
  /\ run' = [it |-> Head(ir.blocks[ir.entry]), num |-> 0, ret |-> "none"]
  /\ pc' = "run_loop"
  /\ UNCHANGED <<ir, reda, ndebug, opt, pre, log, sim, pipe>>

\* lines 85-87, 99-101: the block ends or the instruction is no phi
RunFinish ==
  /\ pc = "run_loop"
  /\ ~(run.it # 0 /\ IsPhi(ir, run.it))
  /\ run' = [run EXCEPT !.ret = IF run.num # 0 THEN "true" ELSE "false"]
  /\ pc' = "run_done"
  /\ UNCHANGED <<ir, reda, ndebug, opt, pre, log, sim, pipe>>

\* faulty variant: a phi without reduction info ends the loop (break for continue)
RunSkipBreaks ==
  /\ pc = "run_loop"
  /\ run.it # 0
  /\ IsPhi(ir, run.it)
  /\ reda[run.it] = "none"
  /\ run' = [run EXCEPT !.ret = IF run.num # 0 THEN "true" ELSE "false"]
  /\ pc' = "run_done"
  /\ UNCHANGED <<ir, reda, ndebug, opt, pre, log, sim, pipe>>

\* lines 89-90: a phi without reduction info
RunSkip ==
  /\ pc = "run_loop"
  /\ run.it # 0
  /\ IsPhi(ir, run.it)
  /\ reda[run.it] = "none"
  /\ run' = [run EXCEPT !.it = NextInst(ir, run.it)]
  /\ UNCHANGED <<pc, ir, reda, ndebug, opt, pre, log, sim, pipe>>

\* line 93: optimize is called
RunCall ==
  /\ pc = "run_loop"
  /\ run.it # 0
  /\ IsPhi(ir, run.it)
  /\ reda[run.it] # "none"
  /\ opt' = Frame(run.it, reda[run.it])
  /\ pre' = ir
  /\ log' = Append(log, [phi |-> run.it, ret |-> "pending"])
  /\ pc' = "opt_entry"
  /\ UNCHANGED <<ir, reda, ndebug, run, sim, pipe>>

\* lines 93-97: optimize has returned
RunReturn ==
  /\ pc = "opt_ret"
  /\ run' = [run EXCEPT !.num = IF opt.ret = "true" THEN @ + 1 ELSE @,
                        !.it = NextInst(ir, run.it)]
  /\ log' = [log EXCEPT ![Len(log)].ret = opt.ret]
  /\ pc' = "run_loop"
  /\ UNCHANGED <<ir, reda, ndebug, opt, pre, sim, pipe>>

Run == RunNoRegion \/ RunBegin \/ RunFinish \/ RunSkip \/ RunCall \/ RunReturn

\* The calls of run that are explored.  Without a region (whole-function
\* mode) run looks at nothing, and the NDEBUG build differs only where the
\* assertion can fail, so these two are varied over part of the functions;
\* a phi whose latch side is no in-region instruction is tried alone.
Plain(p) == p.kind = "add" /\ p.phiShape = "varying" /\ p.q = "none"

InitCases ==
  {c \in [p : Params, region : BOOLEAN, ndebug : BOOLEAN] :
     /\ (c.p.mal # "ok") => Plain(c.p)
     /\ c.ndebug => (c.p.mal # "ok")
     /\ (~c.region) => (Plain(c.p) /\ c.p.mal = "ok" /\ c.p.shape = "s3" /\ ~c.p.rev)}

Init ==
  /\ pc = "run"
  /\ \E c \in InitCases :
       /\ ir = [BuildIR(c.p) EXCEPT !.hasRegion = c.region]
       /\ reda = BuildReda(c.p)
       /\ ndebug = c.ndebug
  /\ opt = NoOpt
  /\ run = NoRun
  /\ pre = ir
  /\ log = <<>>
  /\ sim = NoSim
  /\ PipeIdle

Next == Run \/ Optimize

Spec == Init /\ [][Next]_vars

-----------------------------------------------------------------------------
(* Execution of the loop: the header phi takes its initial value on entry  *)
(* and the latch value on the back edge; the loop is left at the end of an *)
(* iteration, where the out-of-region users read their operands.           *)

\* the instructions of the region that compute a value, in execution order
HasValue(g, id) == g.insts[id].op \notin {"store", "br"}
RegionOrder(g) ==
  LET computes(id) == HasValue(g, id)
  IN  SelectSeq(g.blocks.hdr \o g.blocks.body, computes)

\* the value of an operand
ValOf(env, ref) == IF ref.t = "const" THEN ref.n ELSE env[ref.n]

\* a phi reads prev, the values the loop was entered with or the last
\* iteration left; any other instruction reads env, the values of this one
EvalInst(g, id, env, prev, first, inp) ==
  LET r == g.insts[id]
      v(k) == ValOf(env, r.ops[k])
  IN CASE r.op = "phi" ->
            LET kPre == CHOOSE k \in 1 .. 2 : r.inb[k] = "pre"
            IN IF first THEN ValOf(prev, r.ops[kPre])
               ELSE ValOf(prev, r.ops[3 - kPre])
       [] r.op \in {"in", "in1"} -> inp[id]
       [] r.op \in Kinds -> ApplyKind(r.op, v(1), v(2))
       [] r.op = "select" -> IF v(1) # 0 THEN v(2) ELSE v(3)
       [] OTHER -> 0

RECURSIVE EvalSeq(_, _, _, _, _, _)
EvalSeq(g, seq, env, prev, first, inp) ==
  IF seq = <<>> THEN env
  ELSE EvalSeq(g, Tail(seq),
               [env EXCEPT ![Head(seq)] = EvalInst(g, Head(seq), env, prev, first, inp)],
               prev, first, inp)

\* the values that are read after an iteration: by a user outside the
\* region, by a phi over the back edge, or, if they were computed before the
\* loop, by an instruction of the next iteration
LiveOut(g) ==
  {id \in DOMAIN g.insts :
     \E u \in DOMAIN g.insts : \E k \in DOMAIN g.insts[u].ops :
       /\ g.insts[u].ops[k] = I(id)
       /\ \/ ~InRegion(g, u)
          \/ IsPhi(g, u) /\ g.insts[u].inb[k] # "pre"
          \/ ~IsPhi(g, u) /\ ~InRegion(g, id)}

ExecLoopIter(g, order, live, prev, first, inp) ==
  LET env0 == [id \in Range(order) \cup DOMAIN prev |->
                 IF id \in DOMAIN prev THEN prev[id] ELSE 0]
      env == EvalSeq(g, order, env0, prev, first, inp)
  IN [id \in live |-> env[id]]

InputIds(g) == {id \in DOMAIN g.insts : g.insts[id].op \in {"in", "in1"}}
\* the values an input can take: a value of the reduction's type, or one bit
Inputs(g) ==
  {inp \in [InputIds(g) -> Val] : \A id \in InputIds(g) : g.insts[id].op = "in1" => inp[id] < 2}
ExtUsers(g) == {id \in DOMAIN g.insts : g.insts[id].op = "use"}
\* the values computed before the loop
OutsideValues(g) == {id \in DOMAIN g.insts : g.insts[id].op = "ld"}

\* the value an out-of-region user reads when the loop is left
Observed(g, env, u) == ValOf(env, g.insts[u].ops[1])

\* the loop is entered with some values computed before it
ExecStart ==
  /\ pc = "opt_ret"
  /\ opt.ret = "true"
  /\ \E outside \in [OutsideValues(pre) -> Val] :
       sim' = [n |-> 0, a |-> outside, b |-> outside]
  /\ pc' = "exec"
  /\ UNCHANGED <<ir, reda, ndebug, opt, run, pre, log, pipe>>

\* one iteration, of the loop as it was and of the loop as optimize left it
ExecIter ==
  /\ pc = "exec"
  /\ sim.n < MaxIter
  /\ LET orderA == RegionOrder(pre)
         orderB == RegionOrder(ir)
         liveA == LiveOut(pre)
         liveB == LiveOut(ir)
     IN  \E inp \in Inputs(pre) :
           sim' = [sim EXCEPT
                     !.n = @ + 1,
                     !.a = ExecLoopIter(pre, orderA, liveA, sim.a, sim.n = 0, inp),
                     !.b = ExecLoopIter(ir, orderB, liveB, sim.b, sim.n = 0, inp)]
  /\ UNCHANGED <<pc, ir, reda, ndebug, opt, run, pre, log, pipe>>

\* optimize called on one well-formed reduction
SemCases ==
  {p \in Params : /\ p.mal = "ok" /\ p.q = "none" /\ ~p.rev /\ p.phiShape = "varying"
                  /\ p.extPhi + p.extLatch > 0}

InitSem ==
  /\ pc = "opt_entry"
  /\ \E p \in SemCases :
       /\ ir = BuildIR(p)
       /\ reda = BuildReda(p)
       /\ opt = Frame(Id.phi, p.kind)
  /\ ndebug = FALSE
  /\ run = NoRun
  /\ pre = ir
  /\ log = <<>>
  /\ sim = NoSim
  /\ PipeIdle

NextSem ==
  \/ OptSingleUse \/ OptBegin
  \/ OptPreserveUse \/ OptRemapUse \/ OptUses1End
  \/ OptFold
  \/ OptKeepLatchUse \/ OptRedirectLatchUse \/ OptUses2End
  \/ OptFin
  \/ ExecStart \/ ExecIter

SpecSem == InitSem /\ [][NextSem]_vars

\* C1: after optimize has returned true on a reduction, every out-of-region
\* user (of the header phi or of the latch value) reads, whenever the loop is
\* left, the value it read from the loop before the optimization.
FinalValuePreserved ==
  (pc = "exec" /\ sim.n >= 1) =>
    \A u \in ExtUsers(pre) :
      Observed(pre, sim.a, u) = Observed(ir, sim.b, u)

\* the loop has run twice on an optimized reduction; a user of the phi and
\* a user of the latch value read different values after the loop
FinalValueObserved ==
  /\ pc = "exec"
  /\ sim.n >= 2
  /\ \E u, w \in ExtUsers(pre) :
       /\ pre.insts[u].ops[1] = I(Id.phi)
       /\ pre.insts[w].ops[1] = I(Id.latch)
       /\ Observed(ir, sim.b, u) # Observed(ir, sim.b, w)

-----------------------------------------------------------------------------
(* Properties of optimize and run *)

OptPcs == {"opt_entry", "opt_uses1", "opt_fold", "opt_uses2", "opt_fin", "opt_ret"}
ReturnedTrue == pc = "opt_ret" /\ opt.ret = "true"

\* the phi operand that comes over the back edge
BackEdgeIdx(g, phi) == (CHOOSE k \in 1 .. 2 : g.insts[phi].inb[k] # "pre") - 1

\* the latch-side incoming value is an instruction inside the region
WellFormed(g, phi) ==
  LET v == Operand(g, phi, BackEdgeIdx(g, phi)) IN IsInst(v) /\ InRegion(g, v.n)

\* the latch instruction of the call: the back-edge value of a well-formed
\* reduction, else the instruction optimize took for it
LatchOfCall ==
  IF WellFormed(pre, opt.phi) THEN Operand(pre, opt.phi, BackEdgeIdx(pre, opt.phi)).n
  ELSE opt.latchInst

UsesOutside(g, s) == {u \in Range(s) : ~InRegion(g, u.user)}
UsesInside(g, s) == {u \in Range(s) : InRegion(g, u.user)}

\* C2: a header phi with exactly one use: optimize returns false and the
\* phi, all operands, use lists, instruction lists and the shape map are
\* those of before the call, at every point of the call.
NoOpWhenMinimal ==
  (pc \in OptPcs /\ NumUses(pre, opt.phi) = 1) =>
    /\ ir = pre
    /\ pc \in {"opt_entry", "opt_ret"}
    /\ (pc = "opt_ret" => opt.ret = "false")

MinimalSkipped ==
  pc = "opt_ret" /\ opt.ret = "false" /\ NumUses(pre, opt.phi) = 1

\* C3, in the state optimize returns true in: one instruction more, the
\* fold, of the reduction's operation, right after the latch instruction in
\* its block, with the phi's shape; every other instruction is where it was.
FoldAtReturn ==
  ReturnedTrue =>
    LET f == opt.latchUpdate
        l == LatchOfCall
        b == pre.insts[l].blk
    IN /\ f \notin DOMAIN pre.insts
       /\ DOMAIN ir.insts = DOMAIN pre.insts \cup {f}
       /\ \A id \in DOMAIN pre.insts :
            ir.insts[id].op = pre.insts[id].op /\ ir.insts[id].blk = pre.insts[id].blk
       /\ \A k \in DOMAIN pre.blocks :
            ir.blocks[k] = IF k = b THEN InsertAt(pre.blocks[k], IndexOf(pre.blocks[k], l) + 1, f)
                           ELSE pre.blocks[k]
       /\ ir.insts[f].op = reda[opt.phi]
       /\ ir.insts[f].blk = b
       /\ ir.shape[f] = pre.shape[opt.phi]
       /\ \A id \in DOMAIN pre.shape : ir.shape[id] = pre.shape[id]
       /\ InRegion(pre, l) => ir.insts[f].ops = <<I(opt.phi), I(l)>>

\* C3: each call of optimize that returns true introduces exactly one
\* instruction, the fold; as created it combines the header phi with the
\* latch value, and FoldAtReturn holds when the call returns.
FoldIntroduced ==
  /\ []FoldAtReturn
  /\ [][(pc = "opt_fold" /\ pc' = "opt_uses2") =>
          ir'.insts[opt'.latchUpdate].ops = <<I(opt.phi), I(LatchOfCall')>>]_vars

FoldInEntryBlock ==
  /\ ReturnedTrue
  /\ WellFormed(pre, opt.phi)
  /\ ir.insts[opt.latchUpdate].blk = "hdr"
  /\ ir.shape[opt.latchUpdate] = "uni"

\* C5: a phi with more than one use and no incoming value that is an
\* instruction inside the region: optimize aborts before it rewrites a use
\* or inserts an instruction, and never returns true.
AbortsOnBadLatch ==
  (/\ pc \in OptPcs \cup {"aborted", "crashed"}
   /\ NumUses(pre, opt.phi) > 1
   /\ \A k \in 0 .. 1 :
        LET v == Operand(pre, opt.phi, k) IN ~(IsInst(v) /\ InRegion(pre, v.n)))
  => (ir = pre /\ pc \in {"opt_entry", "aborted"})

\* the phis of the entry block that have reduction info, in block order
ReductionPhis(g) ==
  SelectSeq(g.blocks[g.entry], LAMBDA id : IsPhi(g, id) /\ reda[id] # "none")

\* C7: with a region set, when run returns it has called optimize once for
\* every entry-block phi with reduction info, in declaration order, and for
\* nothing else; the count is the number of calls that returned true and
\* run returns true iff the count is not zero.
RunCallsEachReduction ==
  (pc = "run_done" /\ ir.hasRegion) =>
    /\ [i \in 1 .. Len(log) |-> log[i].phi] = ReductionPhis(ir)
    /\ \A i \in 1 .. Len(log) : log[i].ret \in {"true", "false"}
    /\ run.num = Cardinality({i \in 1 .. Len(log) : log[i].ret = "true"})
    /\ (run.ret = "true") <=> (run.num # 0)
    /\ run.ret \in {"true", "false"}

RunOverTwoReductions ==
  /\ pc = "run_done"
  /\ ir.hasRegion
  /\ Len(log) = 2
  /\ log[1].ret = "true"
  /\ log[2].ret = "false"
  /\ run.ret = "true"

\* C9: when optimize returns true, every use the phi had inside the region
\* now holds the neutral element of the reduction's kind (same user, same
\* operand), and every use it had outside the region still holds the phi.
PhiUsesRedirected ==
  ReturnedTrue =>
    /\ \A u \in UsesInside(pre, pre.uses[opt.phi]) :
         Operand(ir, u.user, u.idx) = GetNeutralElement(reda[opt.phi])
    /\ \A u \in UsesOutside(pre, pre.uses[opt.phi]) :
         Operand(ir, u.user, u.idx) = I(opt.phi)
    /\ Range(ir.uses[opt.phi]) =
         UsesOutside(pre, pre.uses[opt.phi]) \cup {Use(opt.latchUpdate, 0)}

PhiUsedInsideAndOutside ==
  /\ ReturnedTrue
  /\ Cardinality(UsesInside(pre, pre.uses[opt.phi])) >= 2
  /\ UsesOutside(pre, pre.uses[opt.phi]) # {}
  /\ reda[opt.phi] = "min"

\* C10, in the state optimize returns true in: no instruction outside the
\* region uses the old latch value, each such use holds the fold; the uses
\* inside the region other than the phi's latch operand hold the old latch
\* value; the phi's latch operand is the fold, its other operand is unchanged.
LatchUsesAtReturn ==
  ReturnedTrue =>
    LET l == LatchOfCall
        f == opt.latchUpdate
        k == IF WellFormed(pre, opt.phi) THEN BackEdgeIdx(pre, opt.phi) ELSE opt.latchIdx
    IN /\ \A id \in DOMAIN ir.insts :
            (~InRegion(ir, id)) => I(l) \notin Range(ir.insts[id].ops)
       /\ \A u \in UsesOutside(pre, pre.uses[l]) : Operand(ir, u.user, u.idx) = I(f)
       /\ \A u \in UsesInside(pre, pre.uses[l]) \ {Use(opt.phi, k)} :
            Operand(ir, u.user, u.idx) = I(l)
       /\ Operand(ir, opt.phi, k) = I(f)
       /\ Operand(ir, opt.phi, 1 - k) = Operand(pre, opt.phi, 1 - k)

\* progress of the loop of lines 63-71: what is left to redirect, then what
\* is left of the current pass over the use list
Uses2Step == OptKeepLatchUse \/ OptRedirectLatchUse \/ OptUses2End
OutsideLeft == Cardinality(UsesOutside(ir, ir.uses[opt.latchInst]))

\* C10: the loop over the old latch value's uses terminates (in the loop a
\* step that changes the state is always possible, and every step of the
\* loop either redirects one of the finitely many outside uses or shortens
\* the rest of the pass), and LatchUsesAtReturn holds when optimize returns.
LatchUsesRedirected ==
  /\ []LatchUsesAtReturn
  /\ [](pc = "opt_uses2" => ENABLED <<Uses2Step>>_vars)
  /\ [][(pc = "opt_uses2" /\ pc' = "opt_uses2") =>
          \/ OutsideLeft' < OutsideLeft
          \/ OutsideLeft' = OutsideLeft /\ Len(opt'.itUse) < Len(opt.itUse)]_vars

LatchUsedInsideAndOutside ==
  /\ ReturnedTrue
  /\ Cardinality(UsesOutside(pre, pre.uses[LatchOfCall])) >= 2
  /\ UsesInside(pre, pre.uses[LatchOfCall]) \ {Use(opt.phi, opt.latchIdx)} # {}

-----------------------------------------------------------------------------
(* VectorizerInterface::linearize *)

\* most divergent loops in the region
MaxDivLoops == 2
\* most blocks whose mask is expanded by expandRegionMasks
MaxMaskBlocks == 2

RedIdle == ir = [used |-> FALSE] /\ reda = <<>> /\ ndebug = FALSE /\ opt = NoOpt
           /\ run = NoRun /\ pre = ir /\ log = <<>> /\ sim = NoSim

Event(e) == lin' = [lin EXCEPT !.ev = Append(@, e)]

\* line 140: use a fresh domtree
LinDomFresh ==
  /\ pc = "lin_entry"
  /\ lin' = [lin EXCEPT !.dom = lin.cfg, !.ev = Append(@, "dom")]
  /\ pc' = "lin_ctor"
  /\ UNCHANGED <<redVars, vz, cb, lw>>

\* lines 143-146: the lazy mask generator and the loop transform are set up
LinMaskEx ==
  /\ pc = "lin_ctor"
  /\ Event("maskEx")
  /\ pc' = "lin_div"
  /\ UNCHANGED <<redVars, vz, cb, lw>>

\* line 147: transformDivergentLoops rewrites one divergent loop
LinDivLoop ==
  /\ pc = "lin_div"
  /\ lin.nDiv > 0
  /\ lin' = [lin EXCEPT !.nDiv = @ - 1, !.cfg = @ + 1, !.ev = Append(@, "divLoop")]
  /\ UNCHANGED <<pc, redVars, vz, cb, lw>>

\* line 147: transformDivergentLoops returns
LinDivDone ==
  /\ pc = "lin_div"
  /\ lin.nDiv = 0
  /\ Event("divDone")
  /\ pc' = "lin_pdom"
  /\ UNCHANGED <<redVars, vz, cb, lw>>

\* line 149
LinRecalcPostDom ==
  /\ pc = "lin_pdom"
  /\ lin' = [lin EXCEPT !.pdom = lin.cfg, !.ev = Append(@, "pdom")]
  /\ pc' = "lin_dom"
  /\ UNCHANGED <<redVars, vz, cb, lw>>

\* faulty variant: the dominator tree is not recalculated after the loop transform
LinRecalcDomSkipped ==
  /\ pc = "lin_dom"
  /\ pc' = "lin_verify"
  /\ UNCHANGED <<redVars, pipe>>

\* line 150
LinRecalcDom ==
  /\ pc = "lin_dom"
  /\ lin' = [lin EXCEPT !.dom = lin.cfg, !.ev = Append(@, "dom")]
  /\ pc' = "lin_verify"
  /\ UNCHANGED <<redVars, vz, cb, lw>>

\* line 151: IF_DEBUG loopInfo.verify(domTree)
LinVerify ==
  /\ pc = "lin_verify"
  /\ lin.debug
  /\ Event("verifyLoopInfo")
  /\ pc' = "lin_expand"
  /\ UNCHANGED <<redVars, vz, cb, lw>>

LinNoVerify ==
  /\ pc = "lin_verify"
  /\ ~lin.debug
  /\ pc' = "lin_expand"
  /\ UNCHANGED <<redVars, pipe>>

\* line 154: expandRegionMasks expands the mask of one block
LinExpandBlock ==
  /\ pc = "lin_expand"
  /\ lin.nMask > 0
  /\ lin' = [lin EXCEPT !.nMask = @ - 1, !.ev = Append(@, "expandBlock")]
  /\ UNCHANGED <<pc, redVars, vz, cb, lw>>

\* line 154: expandRegionMasks returns
LinExpandDone ==
  /\ pc = "lin_expand"
  /\ lin.nMask = 0
  /\ Event("expandDone")
  /\ pc' = "lin_linearize"
  /\ UNCHANGED <<redVars, vz, cb, lw>>

\* lines 162-163: the Linearizer runs on the analyses as they are now
LinLinearize ==
  /\ pc = "lin_linearize"
  /\ lin' = [lin EXCEPT !.ev = Append(@, "linearize"),
                        !.seen = [dom |-> lin.dom, pdom |-> lin.pdom, cfg |-> lin.cfg]]
  /\ pc' = "lin_ret"
  /\ UNCHANGED <<redVars, vz, cb, lw>>

\* line 170
LinReturn ==
  /\ pc = "lin_ret"
  /\ lin' = [lin EXCEPT !.ret = "true"]
  /\ pc' = "lin_done"
  /\ UNCHANGED <<redVars, vz, cb, lw>>

\* linearize is entered with analyses that are those of the function (0)
\* or that someone upstream broke (-1)
InitLin ==
  /\ pc = "lin_entry"
  /\ \E d \in BOOLEAN, n \in 0 .. MaxDivLoops, m \in 0 .. MaxMaskBlocks,
        a \in {-1, 0}, b \in {-1, 0} :
       lin = [used |-> TRUE, debug |-> d, nDiv |-> n, nMask |-> m, cfg |-> 0,
              dom |-> a, pdom |-> b, ev |-> <<>>,
              seen |-> [dom |-> -1, pdom |-> -1, cfg |-> -1], ret |-> "none"]
  /\ RedIdle
  /\ vz = NoVz
  /\ cb = NoCb
  /\ lw = NoLw

NextLin ==
  \/ LinDomFresh \/ LinMaskEx \/ LinDivLoop \/ LinDivDone
  \/ LinRecalcPostDom \/ LinRecalcDom \/ LinVerify \/ LinNoVerify
  \/ LinExpandBlock \/ LinExpandDone \/ LinLinearize \/ LinReturn

SpecLin == InitLin /\ [][NextLin]_vars

\* the places of event e in the run
At(e) == {i \in 1 .. Len(lin.ev) : lin.ev[i] = e}
The(e) == CHOOSE i \in At(e) : TRUE

\* the three stages run once each, to completion, in the fixed order
StagesInOrder ==
  /\ Cardinality(At("divDone")) = 1
  /\ Cardinality(At("expandDone")) = 1
  /\ Cardinality(At("linearize")) = 1
  /\ \A i \in At("divLoop") : The("maskEx") < i /\ i < The("divDone")
  /\ \A i \in At("expandBlock") : The("divDone") < i /\ i < The("expandDone")
  /\ The("expandDone") < The("linearize")
  /\ lin.nDiv = 0 /\ lin.nMask = 0

\* the analysis is recalculated before the mask expander exists and again
\* between the loop transform and the mask expansion, and at no other time
AtTwoFixedPoints(a) ==
  /\ Cardinality(At(a)) = 2
  /\ \E i, j \in At(a) :
       /\ i < The("maskEx")
       /\ The("divDone") < j
       /\ \A k \in At("expandBlock") \cup At("expandDone") \cup At("linearize") : j < k

\* C4 as claimed: the stages run in order and the dominator tree, the
\* post-dominator tree and the loop info are each recalculated at the two
\* fixed points.
LinearizeRecalculatesAll ==
  pc = "lin_done" =>
    /\ StagesInOrder
    /\ AtTwoFixedPoints("dom")
    /\ AtTwoFixedPoints("pdom")
    /\ AtTwoFixedPoints("loopInfo")

\* C4 as amended: the stages run in order; the dominator tree is
\* recalculated at the two fixed points, the post-dominator tree only once,
\* right after the loop transform and before the dominator tree, the loop
\* info never; the Linearizer reads trees of the block structure as it is.
LinearizeRecalculatesTrees ==
  pc = "lin_done" =>
    /\ StagesInOrder
    /\ AtTwoFixedPoints("dom")
    /\ lin.ev[1] = "dom"
    /\ At("pdom") = {The("divDone") + 1}
    /\ The("divDone") + 2 \in At("dom")
    /\ At("loopInfo") = {}
    /\ lin.seen.dom = lin.seen.cfg
    /\ lin.seen.pdom = lin.seen.cfg
    /\ lin.ret = "true"

\* linearize has returned after two loops were transformed, from trees that
\* were broken on entry
LinearizedAfterLoopTransform ==
  /\ pc = "lin_done"
  /\ Cardinality(At("divLoop")) = 2
  /\ At("expandBlock") # {}
  /\ lin.seen.cfg = 2

-----------------------------------------------------------------------------
(* VectorizerInterface::vectorize *)

\* the environment: the three variables the function reads and any other one
EnvNames == {"RV_DISABLE_STRUCTOPT", "RV_DISABLE_SROV", "RV_DISABLE_POLISH", "OTHER"}
\* a variable is unset, or holds a string
EnvVals == {[set |-> FALSE, str |-> <<>>]}
           \cup {[set |-> TRUE, str |-> v] : v \in {<<>>, <<"0">>, <<"1">>, <<"0", "1">>, <<"n", "o">>}}

\* the flag is set if the variable holds a string that starts on a non-'0'
\* char; the reading of an empty string is left open (vz.emptyIsSet)
CheckFlag(name) ==
  LET v == vz.env[name]
  IN  /\ v.set
      /\ IF v.str = <<>> THEN vz.emptyIsSet ELSE Head(v.str) # "0"

Applied(st) == vz' = [vz EXCEPT !.applied = Append(@, st)]
Report(msg) == vz' = [vz EXCEPT !.report = Append(@, msg)]

\* lines 178-180
VzStructOpt ==
  /\ pc = "vz_sopt"
  /\ ~CheckFlag("RV_DISABLE_STRUCTOPT")
  /\ Applied("structOpt")
  /\ pc' = "vz_srov"
  /\ UNCHANGED <<redVars, lin, cb, lw>>

\* lines 181-183
VzStructOptOff ==
  /\ pc = "vz_sopt"
  /\ CheckFlag("RV_DISABLE_STRUCTOPT")
  /\ Report("Struct opt disabled")
  /\ pc' = "vz_srov"
  /\ UNCHANGED <<redVars, lin, cb, lw>>

\* faulty variant: the second stage asks for the first stage's switch
VzSrovWrongFlag ==
  /\ pc = "vz_srov"
  /\ ~CheckFlag("RV_DISABLE_STRUCTOPT")
  /\ Applied("srov")
  /\ pc' = "vz_reda"
  /\ UNCHANGED <<redVars, lin, cb, lw>>

\* lines 186-188
VzSrov ==
  /\ pc = "vz_srov"
  /\ ~CheckFlag("RV_DISABLE_SROV")
  /\ Applied("srov")
  /\ pc' = "vz_reda"
  /\ UNCHANGED <<redVars, lin, cb, lw>>

\* lines 189-191
VzSrovOff ==
  /\ pc = "vz_srov"
  /\ CheckFlag("RV_DISABLE_SROV")
  /\ Report("SROV opt disabled")
  /\ pc' = "vz_reda"
  /\ UNCHANGED <<redVars, lin, cb, lw>>

\* lines 193-194
VzReductionAnalysis ==
  /\ pc = "vz_reda"
  /\ Applied("reda")
  /\ pc' = "vz_native"
  /\ UNCHANGED <<redVars, lin, cb, lw>>

\* lines 196-200: bool embedControl = !vecInstMap; natBuilder.vectorize
VzNative ==
  /\ pc = "vz_native"
  /\ vz' = [vz EXCEPT !.applied = Append(@, "native"),
                      !.embedControl = IF vz.vecInstMap THEN "false" ELSE "true"]
  /\ pc' = "vz_polish"
  /\ UNCHANGED <<redVars, lin, cb, lw>>

\* lines 203-205
VzPolish ==
  /\ pc = "vz_polish"
  /\ ~CheckFlag("RV_DISABLE_POLISH")
  /\ Applied("polish")
  /\ pc' = "vz_ret"
  /\ UNCHANGED <<redVars, lin, cb, lw>>

\* lines 206-208
VzPolishOff ==
  /\ pc = "vz_polish"
  /\ CheckFlag("RV_DISABLE_POLISH")
  /\ Report("IR Polisher disabled")
  /\ pc' = "vz_ret"
  /\ UNCHANGED <<redVars, lin, cb, lw>>

\* line 212
VzReturn ==
  /\ pc = "vz_ret"
  /\ vz' = [vz EXCEPT !.ret = "true"]
  /\ pc' = "vz_done"
  /\ UNCHANGED <<redVars, lin, cb, lw>>

InitVz ==
  /\ pc = "vz_sopt"
  /\ \E e \in [EnvNames -> EnvVals], m \in BOOLEAN, z \in BOOLEAN :
       vz = [used |-> TRUE, env |-> e, emptyIsSet |-> z, vecInstMap |-> m,
             applied |-> <<>>, report |-> <<>>, embedControl |-> "none", ret |-> "none"]
  /\ RedIdle
  /\ lin = NoLin
  /\ cb = NoCb
  /\ lw = NoLw

NextVz ==
  \/ VzStructOpt \/ VzStructOptOff \/ VzSrov \/ VzSrovOff
  \/ VzReductionAnalysis \/ VzNative \/ VzPolish \/ VzPolishOff \/ VzReturn

SpecVz == InitVz /\ [][NextVz]_vars

Stages == {"structOpt", "srov", "polish", "native"}
Ran(st) == \E i \in 1 .. Len(vz.applied) : vz.applied[i] = st

\* C6 as claimed: each of the four stages has a switch of its own, and the
\* stage is run exactly when that switch is not set.
EachStageHasOwnSwitch ==
  pc = "vz_done" =>
    \E sw \in [Stages -> EnvNames] :
      /\ \A a, b \in Stages : a # b => sw[a] # sw[b]
      /\ \A st \in Stages : Ran(st) <=> ~CheckFlag(sw[st])

\* C6 as amended: struct-layout opt, scalar-replication opt and IR polish
\* are run exactly when their own switch is not set, a disabled stage leaves
\* only its report, and the reduction analysis and the native vectorization
\* are run whatever the environment holds.
ThreeStagesHaveOwnSwitch ==
  pc = "vz_done" =>
    LET on == [st \in {"structOpt", "srov", "reda", "native", "polish"} |->
                 CASE st = "structOpt" -> ~CheckFlag("RV_DISABLE_STRUCTOPT")
                   [] st = "srov" -> ~CheckFlag("RV_DISABLE_SROV")
                   [] st = "polish" -> ~CheckFlag("RV_DISABLE_POLISH")
                   [] OTHER -> TRUE]
        keep(st) == on[st]
        off == [m \in {"Struct opt disabled", "SROV opt disabled", "IR Polisher disabled"} |->
                 CASE m = "Struct opt disabled" -> ~on["structOpt"]
                   [] m = "SROV opt disabled" -> ~on["srov"]
                   [] OTHER -> ~on["polish"]]
        told(m) == off[m]
    IN  /\ vz.applied = SelectSeq(<<"structOpt", "srov", "reda", "native", "polish">>, keep)
        /\ vz.report = SelectSeq(<<"Struct opt disabled", "SROV opt disabled",
                                "IR Polisher disabled">>, told)
        /\ vz.embedControl = IF vz.vecInstMap THEN "false" ELSE "true"
        /\ vz.ret = "true"

\* vectorize has returned with one stage disabled and its neighbours run
OnlySrovDisabled ==
  /\ pc = "vz_done"
  /\ CheckFlag("RV_DISABLE_SROV")
  /\ ~CheckFlag("RV_DISABLE_STRUCTOPT") /\ ~CheckFlag("RV_DISABLE_POLISH")
  /\ vz.applied = <<"structOpt", "reda", "native", "polish">>

-----------------------------------------------------------------------------
(* createCascadeBlocks *)

\* largest vector width
MaxLanes == 11
\* most blocks the function holds on entry
MaxBlocks == 2

Digits == <<"0", "1", "2", "3", "4", "5", "6", "7", "8", "9">>

\* std::to_string of an unsigned
RECURSIVE to_string(_)
to_string(n) ==
  IF n < 10 THEN <<Digits[n + 1]>> ELSE Append(to_string(n \div 10), Digits[(n % 10) + 1])

\* BasicBlock::Create(ctx, name, insertInto): a new block at the end of the
\* function; a block is known by its place in the function
Create(name) == [cb EXCEPT !.fn = Append(@, name)]
Last(c) == Len(c.fn)

\* faulty variant: the two blocks of a lane land in the other vector
CcLaneSwapped ==
  /\ pc = "cc_loop"
  /\ cb.lane < cb.width
  /\ LET c1 == Create(<<"cascade_cond_">> \o to_string(cb.lane))
         c2 == [c1 EXCEPT !.fn = Append(@, <<"cascade_masked_">> \o to_string(cb.lane))]
     IN  cb' = [c2 EXCEPT !.condBlocks = Append(@, Last(c2)),
                          !.maskedBlocks = Append(@, Last(c1)),
                          !.lane = @ + 1]
  /\ UNCHANGED <<pc, redVars, lin, vz, lw>>

\* lines 78-84: one turn of the loop over the lanes
CcLane ==
  /\ pc = "cc_loop"
  /\ cb.lane < cb.width
  /\ LET c1 == Create(<<"cascade_cond_">> \o to_string(cb.lane))
         c2 == [c1 EXCEPT !.fn = Append(@, <<"cascade_masked_">> \o to_string(cb.lane))]
     IN  cb' = [c2 EXCEPT !.condBlocks = Append(@, Last(c1)),
                          !.maskedBlocks = Append(@, Last(c2)),
                          !.lane = @ + 1]
  /\ UNCHANGED <<pc, redVars, lin, vz, lw>>

\* lines 78, 87: the loop is left and the merge block is returned
CcEnd ==
  /\ pc = "cc_loop"
  /\ ~(cb.lane < cb.width)
  /\ LET c1 == Create(<<"cascade_end">>)
     IN  cb' = [c1 EXCEPT !.ret = Last(c1)]
  /\ pc' = "cc_done"
  /\ UNCHANGED <<redVars, lin, vz, lw>>

\* the function holds some blocks and the two vectors name some of them
InitCb ==
  /\ pc = "cc_loop"
  /\ \E w \in 0 .. MaxLanes, n \in 0 .. MaxBlocks :
       \E a \in 0 .. n, b \in 0 .. n :
         cb = [used |-> TRUE, width |-> w, lane |-> 0,
               fn |-> [i \in 1 .. n |-> <<"bb">>],
               condBlocks |-> [i \in 1 .. a |-> i],
               maskedBlocks |-> [i \in 1 .. b |-> n + 1 - i],
               ret |-> 0,
               fn0 |-> n, cond0 |-> [i \in 1 .. a |-> i],
               masked0 |-> [i \in 1 .. b |-> n + 1 - i]]
  /\ RedIdle
  /\ lin = NoLin
  /\ vz = NoVz
  /\ lw = NoLw

NextCb == CcLane \/ CcEnd

SpecCb == InitCb /\ [][NextCb]_vars

\* the decimal number a block name ends on
RECURSIVE ParseNat(_)
ParseNat(ds) ==
  IF ds = <<>> THEN 0
  ELSE LET d == CHOOSE k \in 0 .. 9 : Digits[k + 1] = ds[Len(ds)]
       IN  10 * ParseNat(SubSeq(ds, 1, Len(ds) - 1)) + d

IsLaneBlock(b, prefix, lane) ==
  /\ cb.fn[b][1] = prefix
  /\ Len(cb.fn[b]) > 1
  /\ ParseNat(Tail(cb.fn[b])) = lane

\* C8: createCascadeBlocks appends 2N+1 blocks to the function, in the order
\* cond_0, masked_0, ..., cond_{N-1}, masked_{N-1}, cascade_end, appends to
\* each vector the N blocks of its kind in lane order, and returns the merge
\* block.
CascadeBlocksCreated ==
  pc = "cc_done" =>
    LET N == cb.width
        old == cb.fn0
    IN  /\ Len(cb.fn) = old + (2 * N) + 1
        /\ \A i \in 1 .. old : cb.fn[i] = <<"bb">>
        /\ \A i \in 0 .. N - 1 :
             /\ IsLaneBlock(old + (2 * i) + 1, "cascade_cond_", i)
             /\ IsLaneBlock(old + (2 * i) + 2, "cascade_masked_", i)
        /\ cb.fn[Len(cb.fn)] = <<"cascade_end">>
        /\ cb.ret = Len(cb.fn)
        /\ cb.condBlocks = cb.cond0 \o [i \in 1 .. N |-> old + (2 * i) - 1]
        /\ cb.maskedBlocks = cb.masked0 \o [i \in 1 .. N |-> old + (2 * i)]
        /\ (cb.cond0 = <<>> /\ cb.masked0 = <<>>) =>
             \A i \in 0 .. N - 1 :
               /\ IsLaneBlock(cb.condBlocks[i + 1], "cascade_cond_", i)
               /\ IsLaneBlock(cb.maskedBlocks[i + 1], "cascade_masked_", i)

\* the cascade of the widest vector was created in a function that held
\* blocks, into vectors that were empty
CascadeOfFullWidth ==
  /\ pc = "cc_done"
  /\ cb.width = MaxLanes
  /\ cb.fn0 > 0
  /\ cb.cond0 = <<>> /\ cb.masked0 = <<>>
  /\ Len(cb.condBlocks) = MaxLanes

-----------------------------------------------------------------------------
(* lowerIntrinsics(Module &) *)

\* most calls in the module
MaxCalls == 2

\* const char* names[]
Names == <<"rv_any", "rv_all", "rv_extract", "rv_ballot", "rv_align">>

\* a function of the module as a value
F(name) == [t |-> "func", n |-> name]

\* the instructions of the module: call k is number k, the instruction that
\* reads its result is UserId(k), a zero-extension made for it is ZExtId(k)
UserId(k) == 10 + k
ZExtId(k) == 20 + k

\* the use list of a value; a constant keeps none
UsesOf(m, v) ==
  CASE v.t = "func" -> m.fuses[v.n]
    [] v.t = "inst" -> m.iuses[v.n]
    [] OTHER -> <<>>

\* a use is linked at the head of the list of the value it reads
Link(m, v, u) ==
  CASE v.t = "func" -> [m EXCEPT !.fuses[v.n] = <<u>> \o @]
    [] v.t = "inst" -> [m EXCEPT !.iuses[v.n] = <<u>> \o @]
    [] OTHER -> m

Unlink(m, v, u) ==
  CASE v.t = "func" -> [m EXCEPT !.fuses[v.n] = Without(@, u)]
    [] v.t = "inst" -> [m EXCEPT !.iuses[v.n] = Without(@, u)]
    [] OTHER -> m

\* Use::set on operand idx of instruction user
SetUse(m, user, idx, new) ==
  LET old == m.insts[user].ops[idx + 1]
      u == Use(user, idx)
  IN  Link([Unlink(m, old, u) EXCEPT !.insts[user].ops[idx + 1] = new], new, u)

\* Value::replaceAllUsesWith
RECURSIVE replaceAllUsesWith(_, _, _)
replaceAllUsesWith(m, id, new) ==
  IF m.iuses[id] = <<>> THEN m
  ELSE LET u == Head(m.iuses[id])
       IN  replaceAllUsesWith(SetUse(m, u.user, u.idx, new), id, new)

\* the operands of an instruction leave the use lists they are in
RECURSIVE DropOperands(_, _, _)
DropOperands(m, id, k) ==
  IF k = 0 THEN m
  ELSE DropOperands(Unlink(m, m.insts[id].ops[k], Use(id, k - 1)), id, k - 1)

\* Instruction::eraseFromParent
eraseFromParent(m, id) ==
  LET d == DropOperands(m, id, Len(m.insts[id].ops))
      left == DOMAIN m.insts \ {id}
  IN  [d EXCEPT !.insts = [j \in left |-> d.insts[j]],
                !.iuses = [j \in left |-> d.iuses[j]],
                !.order = Without(@, id)]

\* a new instruction is put before instruction pos
InsertBefore(m, id, rec, pos) ==
  LET withInst == [m EXCEPT
                     !.insts = (id :> rec) @@ @,
                     !.iuses = (id :> <<>>) @@ @,
                     !.order = InsertAt(@, IndexOf(@, pos), id)]
  IN  Link(withInst, rec.ops[1], Use(id, 0))

\* CallInst::getCalledFunction: the callee is the last operand of a call;
\* null if the call is indirect
getCalledFunction(m, call) ==
  LET callee == m.insts[call].ops[Len(m.insts[call].ops)]
  IN  IF callee.t = "func" THEN callee.n ELSE "null"

\* Module::getFunction
getFunction(m, name) == IF name \in m.declared THEN name ELSE "null"

\* IRBuilder::CreateZExt: a constant is folded, anything else gets an
\* instruction before the call
CreateZExt(m, call, v) ==
  IF v.t = "const" THEN [m |-> m, v |-> v]
  ELSE [m |-> InsertBefore(m, ZExtId(call), [op |-> "zext", ops |-> <<v>>], call),
        v |-> I(ZExtId(call))]

\* an argument of the function the instructions are in
A(n) == [t |-> "arg", n |-> n]

\* the calls a module is made of: the function called, the first argument
\* (a plain value, a function, or the result of the call before), a second
\* argument, and whether some instruction that is no call reads the result
CallShapes ==
  [callee : {"rv_any", "rv_ballot", "rv_align", "g", "indirect"},
   a0 : {"arg", "rv_any", "rv_align", "prev"},
   a1 : {"none", "rv_ballot"},
   read : BOOLEAN]

\* what the first argument of call k is once the calls before it are lowered
RECURSIVE ArgKind(_, _)
ArgKind(cs, k) ==
  CASE cs[k].a0 = "arg" -> "int"
    [] cs[k].a0 = "prev" ->
         IF cs[k - 1].callee \in {"rv_any", "rv_align"} THEN ArgKind(cs, k - 1) ELSE "int"
    [] OTHER -> "func"

\* a zero-extension takes an integer: rv_ballot is never given a function
Typed(cs) ==
  \A k \in DOMAIN cs : cs[k].callee = "rv_ballot" => ArgKind(cs, k) = "int"

Modules ==
  UNION {{cs \in [1 .. n -> CallShapes] : (n > 0 => cs[1].a0 # "prev") /\ Typed(cs)} :
           n \in 0 .. MaxCalls}

CallOps(cs, k) ==
  <<CASE cs[k].a0 = "arg" -> A(0)
      [] cs[k].a0 = "prev" -> I(k - 1)
      [] OTHER -> F(cs[k].a0)>>
  \o Opt(cs[k].a1 # "none", <<F(cs[k].a1)>>)
  \o <<IF cs[k].callee = "indirect" THEN C(9) ELSE F(cs[k].callee)>>

RECURSIVE LinkOps(_, _, _)
LinkOps(m, id, k) ==
  IF k > Len(m.insts[id].ops) THEN m
  ELSE LinkOps(Link(m, m.insts[id].ops[k], Use(id, k - 1)), id, k + 1)

RECURSIVE LinkAll(_, _)
LinkAll(m, ids) ==
  IF ids = <<>> THEN m ELSE LinkAll(LinkOps(m, Head(ids), 1), Tail(ids))

\* rv_all is declared and never called, rv_extract is not declared, the
\* other functions are declared if the module names them
BuildModule(cs) ==
  LET n == Len(cs)
      readers == {k \in 1 .. n : cs[k].read}
      ids == (1 .. n) \cup {UserId(k) : k \in readers}
      order == [k \in 1 .. n |-> k]
               \o SelectSeq([k \in 1 .. n |-> UserId(k)], LAMBDA id : id \in ids)
      insts == [id \in ids |->
                  IF id <= n THEN [op |-> "call", ops |-> CallOps(cs, id)]
                  ELSE [op |-> "use", ops |-> <<I(id - 10)>>]]
      named == {cs[k].callee : k \in 1 .. n} \cup {cs[k].a0 : k \in 1 .. n}
               \cup {cs[k].a1 : k \in 1 .. n}
      funcs == {"rv_any", "rv_all", "rv_ballot", "rv_align", "g"}
  IN  LinkAll([insts |-> insts, order |-> order,
               declared |-> (named \cap funcs) \cup {"rv_all"},
               fuses |-> [f \in funcs |-> <<>>],
               iuses |-> [id \in ids |-> <<>>]], order)

(* lowerIntrinsicCall *)

Lowered(call, callee, by) == [call |-> call, callee |-> callee, by |-> by]

\* lines 228-234, 222-223: the call is replaced by its first operand
LwFirstOperand ==
  /\ pc = "lw_call"
  /\ getCalledFunction(lw.m, lw.call) \in {"rv_any", "rv_all", "rv_extract", "rv_align"}
  /\ LET by == lw.m.insts[lw.call].ops[1]
     IN  lw' = [lw EXCEPT
                  !.m = eraseFromParent(replaceAllUsesWith(lw.m, lw.call, by), lw.call),
                  !.lowered = Append(@, Lowered(lw.call, getCalledFunction(lw.m, lw.call), by))]
  /\ pc' = "lw_uses"
  /\ UNCHANGED <<redVars, lin, vz, cb>>

\* lines 235-239, 222-223: the call is replaced by the zero-extension of
\* its first operand
LwBallot ==
  /\ pc = "lw_call"
  /\ getCalledFunction(lw.m, lw.call) = "rv_ballot"
  /\ LET z == CreateZExt(lw.m, lw.call, lw.m.insts[lw.call].ops[1])
     IN  lw' = [lw EXCEPT
                  !.m = eraseFromParent(replaceAllUsesWith(z.m, lw.call, z.v), lw.call),
                  !.lowered = Append(@, Lowered(lw.call, "rv_ballot", z.v))]
  /\ pc' = "lw_uses"
  /\ UNCHANGED <<redVars, lin, vz, cb>>

\* lines 227-241: the callee has another name, the call is left as it is
LwOtherCallee ==
  /\ pc = "lw_call"
  /\ getCalledFunction(lw.m, lw.call) \notin {"null", "rv_any", "rv_all", "rv_extract",
                                              "rv_align", "rv_ballot"}
  /\ lw' = [lw EXCEPT !.kept = @ \cup {lw.call}]
  /\ pc' = "lw_uses"
  /\ UNCHANGED <<redVars, lin, vz, cb>>

\* line 228: getName is called on the null callee of an indirect call
LwNullCallee ==
  /\ pc = "lw_call"
  /\ getCalledFunction(lw.m, lw.call) = "null"
  /\ pc' = "crashed"
  /\ UNCHANGED <<redVars, pipe>>

(* lowerIntrinsics: the loop over the names and over the uses *)

FuncName == Names[lw.i + 1]

\* lines 246, 264: every name was treated
LwReturn ==
  /\ pc = "lw_for"
  /\ ~(lw.i < Len(Names))
  /\ pc' = "lw_done"
  /\ UNCHANGED <<redVars, pipe>>

\* lines 246-248: the module has no function of this name
LwContinue ==
  /\ pc = "lw_for"
  /\ lw.i < Len(Names)
  /\ getFunction(lw.m, FuncName) = "null"
  /\ lw' = [lw EXCEPT !.i = @ + 1]
  /\ UNCHANGED <<pc, redVars, lin, vz, cb>>

\* lines 246-251
LwEnter ==
  /\ pc = "lw_for"
  /\ lw.i < Len(Names)
  /\ getFunction(lw.m, FuncName) # "null"
  /\ pc' = "lw_uses"
  /\ UNCHANGED <<redVars, pipe>>

\* line 252: the function has no use left
LwUsesEnd ==
  /\ pc = "lw_uses"
  /\ lw.m.fuses[FuncName] = <<>>
  /\ lw' = [lw EXCEPT !.i = @ + 1]
  /\ pc' = "lw_for"
  /\ UNCHANGED <<redVars, lin, vz, cb>>

\* lines 252-261: the user of the first use is taken as a call; without
\* assertions the cast does not look at what the user is
LwUser ==
  /\ pc = "lw_uses"
  /\ lw.m.fuses[FuncName] # <<>>
  /\ LET user == Head(lw.m.fuses[FuncName]).user
     IN  /\ lw.m.insts[user].op = "call" \/ lw.ndebug
         /\ lw' = [lw EXCEPT !.call = user]
  /\ pc' = "lw_call"
  /\ UNCHANGED <<redVars, lin, vz, cb>>

\* line 261: cast<CallInst> asserts on a user that is no call
LwCastFail ==
  /\ pc = "lw_uses"
  /\ lw.m.fuses[FuncName] # <<>>
  /\ lw.m.insts[Head(lw.m.fuses[FuncName]).user].op # "call"
  /\ ~lw.ndebug
  /\ pc' = "aborted"
  /\ UNCHANGED <<redVars, pipe>>

\* line 261: without assertions, reading a user that is no call as a call
\* may also end the program
LwCastCrash ==
  /\ pc = "lw_uses"
  /\ lw.m.fuses[FuncName] # <<>>
  /\ lw.m.insts[Head(lw.m.fuses[FuncName]).user].op # "call"
  /\ lw.ndebug
  /\ pc' = "crashed"
  /\ UNCHANGED <<redVars, pipe>>

InitLw ==
  /\ pc = "lw_for"
  /\ \E cs \in Modules, nd \in BOOLEAN :
       lw = [used |-> TRUE, m |-> BuildModule(cs), m0 |-> BuildModule(cs), ndebug |-> nd,
             i |-> 0, call |-> 0, kept |-> {}, lowered |-> <<>>]
  /\ RedIdle
  /\ lin = NoLin
  /\ vz = NoVz
  /\ cb = NoCb

NextLw ==
  \/ LwReturn \/ LwContinue \/ LwEnter \/ LwUsesEnd
  \/ LwUser \/ LwCastFail \/ LwCastCrash
  \/ LwFirstOperand \/ LwBallot \/ LwOtherCallee \/ LwNullCallee

\* the program is one thread that takes its next step as long as it has one
SpecLw == InitLw /\ [][NextLw]_vars /\ WF_vars(NextLw)

Intrinsics == {Names[k] : k \in 1 .. Len(Names)}
SameValue(a, b) == a.t = b.t /\ a.n = b.n
Calls(m) == {id \in DOMAIN m.insts : m.insts[id].op = "call"}

\* no function of the five names has a use, and no call to one is left
AllLowered ==
  /\ \A f \in Intrinsics \cap DOMAIN lw.m.fuses : lw.m.fuses[f] = <<>>
  /\ \A id \in Calls(lw.m) : getCalledFunction(lw.m, id) \notin Intrinsics
  /\ \A k \in 1 .. Len(lw.lowered) :
       LET l == lw.lowered[k]
           first == lw.m0.insts[l.call].ops[1]
       IN  \/ SameValue(l.by, first)
           \/ l.callee = "rv_ballot" /\ SameValue(l.by, I(ZExtId(l.call)))
           \/ \E j \in 1 .. k - 1 : SameValue(first, I(lw.lowered[j].call))

\* C11: in a module whose five functions are used by calls alone, as callee
\* or as argument, lowerIntrinsics comes to an end, and when it returns no
\* function of the five names has a use: every call to one was erased and
\* replaced by its first operand (rv_ballot: by its zero-extension).
LoweringTerminates ==
  /\ <>(pc \in {"lw_done", "aborted", "crashed"})
  /\ [](pc = "lw_done" => AllLowered)

\* a call that was left as it was is taken from the use list again
LoweringSpins ==
  /\ pc = "lw_call"
  /\ lw.call \in lw.kept
  /\ SameValue(lw.m.insts[lw.call].ops[1], F(FuncName))

====
